---------------------------- MODULE Spec2Model ----------------------------
(***************************************************************************)
(* A model of scrape-botech.js: the run driver (main), the per-category    *)
(* orchestrator (scrapeCategory) with its two p-limit pools, the retrying  *)
(* fetchers (fetchWithRetry, downloadFile), the URL helpers and the page   *)
(* extractors.                                                             *)
(*                                                                         *)
(* Strings are sequences of tokens (a token is a run of characters that    *)
(* the code never splits: a scheme, a host, a path segment, an extension,  *)
(* a separator).  A DOM document is the sequence of its elements in        *)
(* document order; an element is a record of the selectors it matches and  *)
(* of its attributes.  One action is one continuation of the event loop:   *)
(* the code that runs, without interruption, when an awaited operation     *)
(* (a GET, a filesystem call, a timer) settles.                            *)
(***************************************************************************)
EXTENDS Integers, Sequences, FiniteSets, TLC

(***************************************************************************)
(* Configuration (scrape-botech.js, lines 15-47)                           *)
(***************************************************************************)
FETCH_CONCURRENCY == 4

DOWNLOAD_CONCURRENCY == 4

MAX_RETRIES == 3

RETRY_DELAY_MS == 1200

BASE_URL == <<"https://", "www.botech.ma", "/">>

OUTPUT_DIR == <<"botech_images">>

\* The head of the CATEGORIES table, in its iteration order (Object.entries).
CATEGORIES ==
  << [name |-> <<"Fauteuils", " ", "Médicals">>,
      rel  |-> <<"prod", "/", "fauteuils-medicals-maroc">>],
     [name |-> <<"Lits", " ", "hospitaliers">>,
      rel  |-> <<"cat", "/", "lits-hospitaliers-maroc">>],
     [name |-> <<"Matelas", " ", "médical">>,
      rel  |-> <<"prod", "/", "matelas-medical-maroc">>],
     [name |-> <<"Table", " ", "de", " ", "chevet">>,
      rel  |-> <<"prod", "/", "table-de-chevet-maroc">>] >>

(***************************************************************************)
(* Bounds of the model                                                     *)
(***************************************************************************)
\* How many entries of CATEGORIES main iterates over.
NumCategories == 2

\* How many awaited operations (GET, ensureDir, writeFile) may fail over the
\* whole run.
MaxFail == 3

Cats == 1..NumCategories

(***************************************************************************)
(* Values                                                                  *)
(***************************************************************************)
\* null / undefined (a missing attribute, toAbs of a falsy reference).
NULL == <<"#null">>

\* The TypeError that new URL(...) raises on a reference it cannot parse.
THROWN == <<"#TypeError">>

\* The empty string: the sentinel body of a failed product fetch.
EMPTY == <<>>

Min(a, b) == IF a <= b THEN a ELSE b

Max(a, b) == IF a >= b THEN a ELSE b

Last(s) == s[Len(s)]

RECURSIVE Flatten(_)
Flatten(ss) == IF ss = <<>> THEN <<>> ELSE Head(ss) \o Flatten(Tail(ss))

Range(s) == {s[i] : i \in 1..Len(s)}


(***************************************************************************)
(* Characters and tokens                                                   *)
(***************************************************************************)
\* Extension tokens, as they may be spelled in a URL.
ExtTokens == {".jpg", ".jpeg", ".png", ".webp", ".JPG", ".PNG", ".gif", ".pdf"}

\* String.prototype.toLowerCase on a token.
ToLower(t) ==
  CASE t = ".JPG" -> ".jpg"
    [] t = ".PNG" -> ".png"
    [] t = "AUX"  -> "aux"
    [] t = "HTTPS://" -> "https://"
    [] t = "HTTP://"  -> "http://"
    [] OTHER      -> t

\* The tokens that hold a "." character.
HasDot(t) == t \in ExtTokens \/ t \in {".", ".."}

\* Number of characters of a token.
Width(t) ==
  CASE t \in {"/", "?", " ", "_", ".", ":", "*", "-", "="} -> 1
    [] t = ".."                                            -> 2
    [] t \in {".jpg", ".png", ".gif", ".pdf", ".JPG", ".PNG"} -> 4
    [] t \in {".jpeg", ".webp"}                            -> 5
    [] t = "long-name"                                     -> 160
    [] t = "long-name[0..150)"                             -> 150
    [] OTHER                                               -> 8

\* The first n characters of a token wider than n.
Truncated(t, n) == IF t = "long-name" /\ n = 150 THEN "long-name[0..150)" ELSE "#cut"

DigitTok == <<"0", "1", "2", "3", "4", "5", "6", "7", "8", "9">>

\* u.split("?")[0]
RECURSIVE SplitQuery0(_)
SplitQuery0(u) ==
  IF u = <<>> \/ Head(u) = "?" THEN <<>>
  ELSE <<Head(u)>> \o SplitQuery0(Tail(u))

\* Does s hold the tokens of pat, in a row?
Contains(s, pat) ==
  \E i \in 1..(Len(s) - Len(pat) + 1) : SubSeq(s, i, i + Len(pat) - 1) = pat

(***************************************************************************)
(* URL helpers (scrape-botech.js, lines 65-82)                             *)
(***************************************************************************)
\* url.replace(/^\.?\//, "")
StripLead(url) ==
  IF Len(url) >= 2 /\ url[1] = "." /\ url[2] = "/" THEN SubSeq(url, 3, Len(url))
  ELSE IF Len(url) >= 1 /\ url[1] = "/" THEN Tail(url)
  ELSE url

\* Leading "./" and "../" segments of a path resolved at the root "/".
RECURSIVE DropDotSegments(_)
DropDotSegments(p) ==
  IF Len(p) >= 2 /\ p[1] \in {".", ".."} /\ p[2] = "/"
    THEN DropDotSegments(SubSeq(p, 3, Len(p)))
  ELSE p

\* The URL parser strips leading spaces.
RECURSIVE TrimLead(_)
TrimLead(s) == IF s # <<>> /\ Head(s) = " " THEN TrimLead(Tail(s)) ELSE s

\* After "//" the parser of a special scheme skips any further "/".
RECURSIVE SkipSlashes(_)
SkipSlashes(s) == IF s # <<>> /\ Head(s) = "/" THEN SkipSlashes(Tail(s)) ELSE s

\* The scheme tokens a reference may start with; those of special schemes
\* are followed by a host.
Schemes == {"https://", "http://", "data:"}

\* An authority the parser rejects: no host, or an unclosed "[".
BadHost(s) == s = <<>> \/ Head(s) \in {"[", "?"}

\* new URL(rel, BASE_URL).href: a reference with a scheme is absolute; a
\* protocol-relative one ("//host...") takes the scheme of the base; both
\* raise on an invalid host.  A path-absolute reference ("/...") replaces
\* the base's path; any other is resolved against the base's directory "/".
NewUrlHref(rel) ==
  LET r == TrimLead(rel)
  IN  IF r # <<>> /\ ToLower(Head(r)) \in Schemes
        THEN IF ToLower(Head(r)) # "data:" /\ BadHost(SkipSlashes(Tail(r)))
               THEN THROWN
             ELSE <<ToLower(Head(r))>> \o SkipSlashes(Tail(r))
      ELSE IF Len(r) >= 2 /\ r[1] = "/" /\ r[2] = "/"
        THEN IF BadHost(SkipSlashes(r)) THEN THROWN
             ELSE <<"https://">> \o SkipSlashes(r)
      ELSE IF Len(r) >= 1 /\ r[1] = "/"
        THEN BASE_URL \o DropDotSegments(Tail(r))
      ELSE BASE_URL \o DropDotSegments(r)

\* Mutant of toAbs: a URL with a scheme is resolved like any other reference.
toAbsAlwaysResolves(url) ==
  IF url = NULL \/ url = EMPTY THEN NULL
  ELSE BASE_URL \o DropDotSegments(StripLead(url))

toAbs(url) ==
  IF url = NULL \/ url = EMPTY THEN NULL
  ELSE IF ToLower(Head(url)) \in {"https://", "http://"} THEN url
  ELSE NewUrlHref(StripLead(url))

\* /\.(jpe?g|png|webp)$/i
EndsWithImageExt(s) ==
  Len(s) > 0 /\ ToLower(Last(s)) \in {".jpg", ".jpeg", ".png", ".webp"}

isImageUrl(u) == EndsWithImageExt(SplitQuery0(u))

extFromUrl(u) ==
  LET clean == SplitQuery0(u)
  IN  IF EndsWithImageExt(clean) THEN ToLower(Last(clean)) ELSE ".jpg"

\* path.basename: what follows the last "/".
RECURSIVE basename(_)
basename(p) ==
  IF \E i \in 1..Len(p) : p[i] = "/" THEN basename(Tail(p)) ELSE p

\* sanitize-filename: the illegal characters are removed; "." and "..", and a
\* Windows reserved name with or without extension, become ""; trailing dots
\* and spaces are removed.
IllegalTokens == {"/", "?", ":", "*", "<", ">", "|"}

WindowsReserved == {"con", "prn", "aux", "nul", "com1", "lpt1"}

RECURSIVE DropTrailing(_)
DropTrailing(s) ==
  IF Len(s) > 0 /\ Last(s) \in {".", "..", " "}
    THEN DropTrailing(SubSeq(s, 1, Len(s) - 1))
  ELSE s

sanitize(name) ==
  LET legal == SelectSeq(name, LAMBDA t : t \notin IllegalTokens)
  IN  IF legal \in {<<".">>, <<"..">>} THEN <<>>
      ELSE IF Len(legal) > 0 /\ ToLower(Head(legal)) \in WindowsReserved
              /\ (Len(legal) = 1 \/ HasDot(legal[2]))
        THEN <<>>
      ELSE DropTrailing(legal)

\* .replace(/\s+/g, "_")
RECURSIVE CollapseSpaces(_)
CollapseSpaces(s) ==
  IF s = <<>> THEN <<>>
  ELSE IF Head(s) = " "
    THEN IF Len(s) >= 2 /\ s[2] = " " THEN CollapseSpaces(Tail(s))
         ELSE <<"_">> \o CollapseSpaces(Tail(s))
  ELSE <<Head(s)>> \o CollapseSpaces(Tail(s))

\* .slice(0, n), counted in characters.
RECURSIVE Slice(_, _)
Slice(s, n) ==
  IF s = <<>> \/ n <= 0 THEN <<>>
  ELSE IF Width(Head(s)) <= n THEN <<Head(s)>> \o Slice(Tail(s), n - Width(Head(s)))
  ELSE <<Truncated(Head(s), n)>>

safeFileName(name) == Slice(CollapseSpaces(sanitize(name)), 150)

\* [...new Set(arr)]: the first occurrence of each value, in order.
RECURSIVE uniq(_)
uniq(arr) ==
  IF arr = <<>> THEN <<>>
  ELSE LET init == uniq(SubSeq(arr, 1, Len(arr) - 1))
       IN  IF Last(arr) \in Range(init) THEN init ELSE Append(init, Last(arr))

\* String(n).padStart(3, "0")
PadStart3(n) ==
  IF n < 10 THEN <<"0", "0", DigitTok[n + 1]>>
  ELSE IF n < 100 THEN <<"0", DigitTok[(n \div 10) + 1], DigitTok[(n % 10) + 1]>>
  ELSE <<DigitTok[(n \div 100) + 1], DigitTok[((n \div 10) % 10) + 1], DigitTok[(n % 10) + 1]>>

(***************************************************************************)
(* Documents (cheerio.load) and the extractors (lines 121-157)             *)
(***************************************************************************)
\* An element: its tag, its own classes, the classes of its ancestors and its
\* attributes (NULL: the attribute is missing).
Elem(tag, cls, anc, src, dataSrc, zoom, href) ==
  [tag |-> tag, cls |-> cls, anc |-> anc,
   src |-> src, dataSrc |-> dataSrc, zoom |-> zoom, href |-> href]

\* $(selector): the elements matching one of the selectors, in document order.
Matches(el, sel) ==
  CASE sel = ".single-product-item .img-holder img" ->
         el.tag = "img" /\ {"single-product-item", "img-holder"} \subseteq el.anc
    [] sel = ".single-product-item .img-holder a" ->
         el.tag = "a" /\ {"single-product-item", "img-holder"} \subseteq el.anc
    [] sel = ".single-product-item .product-title a" ->
         el.tag = "a" /\ {"single-product-item", "product-title"} \subseteq el.anc
    [] sel = ".img-holder img"   -> el.tag = "img" /\ "img-holder" \in el.anc
    [] sel = ".thumb-image img"  -> el.tag = "img" /\ "thumb-image" \in el.anc
    [] sel = ".thumb-image"      -> "thumb-image" \in el.cls
    [] sel = "img"               -> el.tag = "img"
    [] OTHER                     -> FALSE

Select(html, sels) ==
  SelectSeq(html, LAMBDA el : \E sel \in sels : Matches(el, sel))

\* a || b for attribute values: a unless it is falsy (missing or "").
OrElse(a, b) == IF a = NULL \/ a = EMPTY THEN b ELSE a

MapSeq(s, F(_)) == [i \in 1..Len(s) |-> F(s[i])]

\* cheerio's .map(...).get() leaves out the null and undefined results.
NonNull(s) == SelectSeq(s, LAMBDA x : x # NULL)

CategoryImageRefs(html) ==
  MapSeq(Select(html, {".single-product-item .img-holder img"}), LAMBDA el : toAbs(el.src))

extractCategoryImages(html) ==
  uniq(SelectSeq(NonNull(CategoryImageRefs(html)), isImageUrl))

ProductLinkHrefs(html) ==
  SelectSeq(
    NonNull(MapSeq(Select(html, {".single-product-item .img-holder a",
                                 ".single-product-item .product-title a"}),
                   LAMBDA el : el.href)),
    LAMBDA href : Contains(href, <<"details", "/">>) \/ Contains(href, <<"prod", "/">>))

extractProductLinks(html) == uniq(MapSeq(ProductLinkHrefs(html), toAbs))

HolderImageRefs(html) ==
  MapSeq(Select(html, {".img-holder img", ".thumb-image img", ".thumb-image"}),
         LAMBDA el : toAbs(OrElse(OrElse(el.src, el.dataSrc), el.zoom)))

AnyImageRefs(html) == MapSeq(Select(html, {"img"}), LAMBDA el : toAbs(el.src))

IsProduitsUrl(abs) == Contains(abs, <<"/", "images", "/", "produits", "/">>)

extractProductImages(html) ==
  uniq(SelectSeq(HolderImageRefs(html), LAMBDA abs : abs # NULL /\ isImageUrl(abs))
       \o SelectSeq(AnyImageRefs(html),
                    LAMBDA abs : abs # NULL /\ isImageUrl(abs) /\ IsProduitsUrl(abs)))

\* Does the extractor raise (a reference new URL cannot parse)?
extractCategoryImagesThrows(html) == THROWN \in Range(CategoryImageRefs(html))

extractProductLinksThrows(html) == THROWN \in Range(MapSeq(ProductLinkHrefs(html), toAbs))

extractProductImagesThrows(html) ==
  THROWN \in Range(HolderImageRefs(html)) \cup Range(AnyImageRefs(html))

(***************************************************************************)
(* The site: what a successful GET of each URL answers.  The first         *)
(* category lists five products whose pages show two images under one base *)
(* name; the second lists one product and shows five images; the others    *)
(* list no product and show one thumbnail.                                 *)
(***************************************************************************)
CardImg(src) == Elem("img", {}, {"single-product-item", "img-holder"}, src, NULL, NULL, NULL)

LazyCardImg(dataSrc) ==
  Elem("img", {}, {"single-product-item", "img-holder"}, NULL, dataSrc, NULL, NULL)

CardLink(href) == Elem("a", {}, {"single-product-item", "img-holder"}, NULL, NULL, NULL, href)

TitleLink(href) ==
  Elem("a", {}, {"single-product-item", "product-title"}, NULL, NULL, NULL, href)

HolderImg(src) == Elem("img", {}, {"img-holder"}, src, NULL, NULL, NULL)

ThumbImg(src, dataSrc) == Elem("img", {}, {"thumb-image"}, src, dataSrc, NULL, NULL)

ThumbDiv(zoom) == Elem("div", {"thumb-image"}, {}, NULL, NULL, zoom, NULL)

PlainImg(src) == Elem("img", {}, {}, src, NULL, NULL, NULL)

\* The slot of Promise.all's result array that no worker has filled yet.
UNSET == << Elem("#unset", {}, {}, NULL, NULL, NULL, NULL) >>

ProductPath(k, i) ==
  <<IF i = 5 THEN "prod" ELSE "details", "/", DigitTok[k + 1], "/", DigitTok[i + 1]>>

Produits(k) == <<"images", "/", "produits", "/", DigitTok[k + 1], "/">>

ListingDoc(k) ==
  CASE k = 1 ->
         << CardLink(ProductPath(k, 1)),
            CardImg(Produits(k) \o <<"a", "/", "img", ".jpg">>),
            TitleLink(ProductPath(k, 1)),
            CardLink(<<"/">> \o ProductPath(k, 2)),
            CardImg(<<"images", "/", "placeholder", ".gif">>),
            CardLink(<<".", "/">> \o ProductPath(k, 3)),
            LazyCardImg(Produits(k) \o <<"lazy", ".jpg">>),
            CardLink(BASE_URL \o ProductPath(k, 4)),
            TitleLink(<<"contact">>),
            TitleLink(ProductPath(k, 5)) >>
    [] k = 2 ->
         << CardLink(ProductPath(k, 1)),
            CardImg(Produits(k) \o <<"t1", ".jpg">>),
            TitleLink(ProductPath(k, 1)),
            CardLink(<<"#">>),
            CardImg(<<"/">> \o Produits(k) \o <<"t2", ".png">>) >>
    [] OTHER ->
         << CardImg(Produits(k) \o <<"only", ".webp">>),
            TitleLink(<<"contact">>) >>

ProductDoc(k, i) ==
  CASE k = 1 /\ i = 1 ->
         << HolderImg(<<"/">> \o Produits(k) \o <<"a", "/", "img", ".jpg">>),
            ThumbDiv(Produits(k) \o <<"b", "/", "img", ".jpg">>),
            PlainImg(<<"images", "/", "logo", ".png">>) >>
    [] k = 1 /\ i = 2 ->
         << PlainImg(<<"https://", "cdn.botech.ma", "/", "banners", "/", "x", ".webp">>),
            PlainImg(<<"images", "/", "banner", ".jpg">>) >>
    [] k = 1 /\ i = 3 ->
         << ThumbImg(BASE_URL \o Produits(k) \o <<"b", "/", "img", ".jpg">>, NULL) >>
    [] k = 2 /\ i = 1 ->
         << HolderImg(<<".", "/">> \o Produits(k) \o <<"t1", ".jpg">>),
            ThumbImg(EMPTY, Produits(k) \o <<"t2", ".png", "?", "v", "=", "2">>),
            PlainImg(Produits(k) \o <<"con", ".jpg">>),
            PlainImg(Produits(k) \o <<"AUX", ".PNG">>),
            PlainImg(<<"images", "/", "logo", ".png">>) >>
    [] OTHER ->
         << PlainImg(<<"images", "/", "logo", ".png">>) >>

ListingUrl(k) == toAbs(CATEGORIES[k].rel)

\* The body a successful GET of url returns.
PageAt(url) ==
  IF \E k \in 1..Len(CATEGORIES) : url = ListingUrl(k)
    THEN ListingDoc(CHOOSE k \in 1..Len(CATEGORIES) : url = ListingUrl(k))
  ELSE IF \E k \in 1..Len(CATEGORIES), i \in 1..5 : url = BASE_URL \o ProductPath(k, i)
    THEN LET ki == CHOOSE ki \in (1..Len(CATEGORIES)) \X (1..5) :
                     url = BASE_URL \o ProductPath(ki[1], ki[2])
         IN  ProductDoc(ki[1], ki[2])
  ELSE <<>>

(***************************************************************************)
(* State                                                                   *)
(***************************************************************************)
VARIABLES
  main,       \* the run driver: where it is, which category it is awaiting
  cat,        \* per category: the state of its scrapeCategory call
  disk,       \* the files under OUTPUT_DIR: destination path -> content
  dirs,       \* the directories that exist
  ev,         \* what the last continuation completed and logged
  fails,      \* how many awaited operations have failed so far
  helper      \* a helper called on its own: its argument and its result

vars == <<main, cat, disk, dirs, ev, fails, helper>>

(***************************************************************************)
(* fetchWithRetry (lines 88-96): one call, from its first GET to its       *)
(* return or throw.  gets counts the GETs it issued, okAt is the attempt   *)
(* whose response it returned, err the attempt whose failure it threw.     *)
(***************************************************************************)
NoCall ==
  [op |-> "none", url |-> NULL, st |-> "none", attempt |-> 0, ms |-> 0, gets |-> 0,
   res |-> EMPTY, okAt |-> 0, err |-> 0]

\* The call is entered: client.get(url) is in flight.
fetchWithRetry(url) ==
  [NoCall EXCEPT !.op = "fetchWithRetry", !.url = url, !.st = "get", !.attempt = 1,
                 !.gets = 1]

\* The GET answered: return the response.
FetchResolved(call, body) ==
  [call EXCEPT !.st = "returned", !.res = body, !.okAt = call.attempt]

\* Mutant of FetchRejected: the delay does not grow with the attempt.
FetchRejectedFlatDelay(call) ==
  IF call.attempt >= MAX_RETRIES
    THEN [call EXCEPT !.st = "thrown", !.err = call.attempt]
  ELSE [call EXCEPT !.st = "sleep", !.ms = RETRY_DELAY_MS]

\* Mutant of FetchRejected: the last attempt is taken for one more.
FetchRejectedOneMore(call) ==
  IF call.attempt > MAX_RETRIES
    THEN [call EXCEPT !.st = "thrown", !.err = call.attempt]
  ELSE [call EXCEPT !.st = "sleep", !.ms = RETRY_DELAY_MS * call.attempt]

\* The GET failed: throw on the last attempt, else sleep RETRY_DELAY_MS * attempt.
FetchRejected(call) ==
  IF call.attempt >= MAX_RETRIES
    THEN [call EXCEPT !.st = "thrown", !.err = call.attempt]
  ELSE [call EXCEPT !.st = "sleep", !.ms = RETRY_DELAY_MS * call.attempt]

\* The sleep is over: fetchWithRetry(url, opts, attempt + 1).
FetchRetry(call) ==
  [call EXCEPT !.st = "get", !.attempt = @ + 1, !.gets = @ + 1, !.ms = 0]

(***************************************************************************)
(* The workers of the two pools.  A worker that has settled keeps its      *)
(* result only: the frames of its calls are gone.                          *)
(***************************************************************************)
NoDest == [dir |-> <<>>, name |-> <<>>]

\* No helper is being called on its own.
NoHelper ==
  [fn |-> "none", st |-> "none", ref |-> NULL, doc |-> <<>>, abs |-> NULL,
   urls |-> <<>>, n |-> 0]

\* A product-page worker (lines 181-189), queued in limitFetch.
FetchWorker(url) == [url |-> url, st |-> "queued", call |-> NoCall]

\* An image worker (lines 209-221), queued in limitDl.  attempt, ms and gets
\* are those of its downloadFile call, got the attempt whose GET answered
\* last (0: none has); out is how the worker ended.
DlWorker(url) ==
  [url |-> url, st |-> "queued", dest |-> NoDest, attempt |-> 0, ms |-> 0,
   gets |-> 0, got |-> 0, out |-> "none"]

Running(w) == w.st \notin {"queued", "done", "rejected"}

\* p-limit's activeCount.
ActiveCount(ws) == Cardinality({i \in 1..Len(ws) : Running(ws[i])})

QueueSize(ws) == Cardinality({i \in 1..Len(ws) : ws[i].st = "queued"})

\* queue.dequeue(): the oldest queued worker.
QueueHead(ws) ==
  CHOOSE i \in 1..Len(ws) : ws[i].st = "queued" /\ \A j \in 1..(i - 1) : ws[j].st # "queued"

Settled(ws) == \A i \in 1..Len(ws) : ws[i].st \in {"done", "rejected"}

folderOf(c) == OUTPUT_DIR \o <<"/">> \o safeFileName(CATEGORIES[c].name)

(***************************************************************************)
(* The fetch pool: limitFetch = pLimit(FETCH_CONCURRENCY) (lines 178-191)  *)
(***************************************************************************)
\* run(): the worker is entered and awaits fetchWithRetry(url).
RunFetchWorker(ws, i) ==
  [ws EXCEPT ![i].st = "run", ![i].call = fetchWithRetry(ws[i].url)]

\* Mutant of FetchSlotFree: the limit is not looked at.
FetchSlotFreeNoLimit(ws) == QueueSize(ws) > 0

\* May the pool run one more worker?
FetchSlotFree(ws) == ActiveCount(ws) < FETCH_CONCURRENCY /\ QueueSize(ws) > 0

\* Each limitFetch(fn) enqueues fn and, in a microtask, runs the head of the
\* queue if activeCount < concurrency.
RECURSIVE EnqueueFetchAll(_, _)
EnqueueFetchAll(ws, n) ==
  IF n = 0 THEN ws
  ELSE EnqueueFetchAll(IF FetchSlotFree(ws) THEN RunFetchWorker(ws, QueueHead(ws)) ELSE ws,
                       n - 1)

\* next(): a worker settled; run the head of the queue, if any.
FetchNext(ws) == IF QueueSize(ws) > 0 THEN RunFetchWorker(ws, QueueHead(ws)) ELSE ws

(***************************************************************************)
(* The download pool: limitDl = pLimit(DOWNLOAD_CONCURRENCY) (204-223)     *)
(***************************************************************************)
\* Line 212: does the image fall back to the synthetic name?
UsesIndex(imgUrl) ==
  LET urlName == safeFileName(basename(SplitQuery0(imgUrl)))
  IN  ~ \E j \in 1..Len(urlName) : HasDot(urlName[j])

\* The file name of an image (lines 210-214), given the value of index.
fileNameOf(c, imgUrl, index) ==
  IF UsesIndex(imgUrl)
    THEN safeFileName(CATEGORIES[c].name) \o <<"_">> \o PadStart3(index)
         \o <<extFromUrl(imgUrl)>>
  ELSE safeFileName(basename(SplitQuery0(imgUrl)))

\* Mutant of NextIndex: the counter is read and not incremented.
NextIndexStuck(imgUrl, index) == index

\* index++ (line 214).
NextIndex(imgUrl, index) == IF UsesIndex(imgUrl) THEN index + 1 ELSE index

\* path.join(folder, fileName), line 215.
destOf(c, imgUrl, index) == [dir |-> folderOf(c), name |-> fileNameOf(c, imgUrl, index)]

\* run(): the worker is entered, computes its destination and awaits
\* fs.pathExists(dest).
RunDlWorker(c, p, i) ==
  [ dl    |-> [p.dl EXCEPT ![i].st = "pathExists",
                           ![i].dest = destOf(c, p.dl[i].url, p.index)],
    index |-> NextIndex(p.dl[i].url, p.index) ]

DlSlotFree(ws) == ActiveCount(ws) < DOWNLOAD_CONCURRENCY /\ QueueSize(ws) > 0

RECURSIVE EnqueueDlAll(_, _, _)
EnqueueDlAll(c, p, n) ==
  IF n = 0 THEN p
  ELSE EnqueueDlAll(c, IF DlSlotFree(p.dl) THEN RunDlWorker(c, p, QueueHead(p.dl)) ELSE p,
                    n - 1)

DlNext(c, p) == IF QueueSize(p.dl) > 0 THEN RunDlWorker(c, p, QueueHead(p.dl)) ELSE p

(***************************************************************************)
(* scrapeCategory (lines 163-224) and main (lines 230-243): what runs,     *)
(* without interruption, once an awaited operation has settled.  r is the  *)
(* triple [main, cat, ev]; each operator gives the triple after the code   *)
(* has run up to its next await.                                           *)
(***************************************************************************)
\* A scrapeCategory call: its phase, its locals, and, once it has rejected,
\* why.  present: was every destination on disk when the downloads began?
InitCat ==
  [phase |-> "idle", why |-> "", call |-> NoCall, catThumbs |-> <<>>,
   productLinks |-> <<>>, fw |-> <<>>, productPages |-> <<>>, allImages |-> <<>>,
   dl |-> <<>>, index |-> 1, present |-> FALSE]

NoEv == [call |-> NoCall, log |-> {}]

Logged(r, line, about) == [r EXCEPT !.ev.log = @ \cup {[line |-> line, about |-> about]}]

\* The call that has just returned or thrown.
Completed(r, call) == [r EXCEPT !.ev.call = call]

\* Mutant of MainResume: the loop leaves the last category out.
MainResumeOneLess(r) ==
  IF r.main.cur < NumCategories - 1
    THEN LET n == r.main.cur + 1
         IN  [r EXCEPT !.main = [pc |-> "scrape", cur |-> n,
                                 attempted |-> Append(r.main.attempted, n)],
                       !.cat[n].phase = "ensureDir"]
  ELSE Logged([r EXCEPT !.main.pc = "done"], "All done", <<>>)

\* main, lines 234-242: the loop calls scrapeCategory on the next entry, which
\* awaits fs.ensureDir(folder) (line 165), or ends (line 242).
MainResume(r) ==
  IF r.main.cur < NumCategories
    THEN LET n == r.main.cur + 1
         IN  [r EXCEPT !.main = [pc |-> "scrape", cur |-> n,
                                 attempted |-> Append(r.main.attempted, n)],
                       !.cat[n].phase = "ensureDir"]
  ELSE Logged([r EXCEPT !.main.pc = "done"], "All done", <<>>)

\* Mutant of MainCatch: main has no catch, so it rejects.
MainRethrows(r, c) == [r EXCEPT !.main.pc = "crashed"]

\* main's catch (lines 237-239): the error is logged and the loop goes on.
MainCatch(r, c) == MainResume(Logged(r, "Category failed", CATEGORIES[c].name))

\* The locals of a scrapeCategory call that has settled, and whose workers
\* have, are gone.
Retire(r, c) ==
  IF Settled(r.cat[c].fw) /\ Settled(r.cat[c].dl)
    THEN [r EXCEPT !.cat[c] = [InitCat EXCEPT !.phase = r.cat[c].phase,
                                              !.why = r.cat[c].why]]
  ELSE r

\* scrapeCategory(c) returns.
Return(r, c) == MainResume(Retire([r EXCEPT !.cat[c].phase = "returned"], c))

\* scrapeCategory(c) rejects: an await in it raised.
Reject(r, c, why) ==
  MainCatch(Retire([r EXCEPT !.cat[c].phase = "rejected", !.cat[c].why = why], c), c)

\* The destinations a run gives to images, the workers entered in the order
\* of the list.
RECURSIVE DestsFrom(_, _, _)
DestsFrom(c, images, index) ==
  IF images = <<>> THEN <<>>
  ELSE <<destOf(c, Head(images), index)>>
       \o DestsFrom(c, Tail(images), NextIndex(Head(images), index))

DestsOf(c, images) == DestsFrom(c, images, 1)

\* Lines 204-223: the image workers are handed to limitDl and Promise.all
\* awaits them; of no worker at all, it resolves at once.
DownloadPhase(r, c, images) ==
  LET p  == EnqueueDlAll(c, [dl |-> MapSeq(images, DlWorker), index |-> 1], Len(images))
      r1 == [r EXCEPT !.cat[c].phase = "download", !.cat[c].allImages = images,
                      !.cat[c].dl = p.dl, !.cat[c].index = p.index,
                      !.cat[c].present = Range(DestsOf(c, images)) \subseteq DOMAIN disk]
  IN  IF images = <<>> THEN Return(r1, c) ELSE r1

\* Mutant of allImagesOf: the thumbnails of the listing are left out.
allImagesOfNoThumbs(catThumbs, productPages) ==
  uniq(Flatten(MapSeq(productPages, extractProductImages)))

\* Mutant of allImagesOf: uniq is left out.
allImagesOfNoUniq(catThumbs, productPages) ==
  catThumbs \o Flatten(MapSeq(productPages, extractProductImages))

\* Lines 194-197: the final image set.
allImagesOf(catThumbs, productPages) ==
  uniq(catThumbs \o Flatten(MapSeq(productPages, extractProductImages)))

\* Lines 191-203: every product worker has settled.
AfterProducts(r, c) ==
  LET pages == r.cat[c].productPages
  IN  IF \E i \in 1..Len(pages) : extractProductImagesThrows(pages[i])
        THEN Reject(r, c, "extract")
      ELSE DownloadPhase(r, c, allImagesOf(r.cat[c].catThumbs, pages))

\* Lines 171-191: the listing page is there; the product workers are handed
\* to limitFetch and Promise.all awaits them.
AfterListing(r, c, catHtml) ==
  IF extractCategoryImagesThrows(catHtml) \/ extractProductLinksThrows(catHtml)
    THEN Reject(r, c, "extract")
  ELSE LET links == extractProductLinks(catHtml)
           r1 == [r EXCEPT !.cat[c].phase = "products", !.cat[c].call = NoCall,
                           !.cat[c].catThumbs = extractCategoryImages(catHtml),
                           !.cat[c].productLinks = links,
                           !.cat[c].fw = EnqueueFetchAll(MapSeq(links, FetchWorker), Len(links)),
                           !.cat[c].productPages = [i \in 1..Len(links) |-> UNSET]]
       IN  IF links = <<>> THEN AfterProducts(r1, c) ELSE r1

\* Mutant of SetResult: the results are pushed as the workers finish.
SetResultPush(pages, i, html) ==
  LET k == CHOOSE k \in 1..Len(pages) :
             pages[k] = UNSET /\ \A j \in 1..(k - 1) : pages[j] # UNSET
  IN  [pages EXCEPT ![k] = html]

\* Promise.all keeps the value of the i-th promise at index i.
SetResult(pages, i, html) == [pages EXCEPT ![i] = html]

\* Mutant of ProductWorkerDone: the first worker to settle resolves
\* Promise.all.
ProductWorkerDoneFirst(r, c, i, html) ==
  LET ws == [r.cat[c].fw EXCEPT ![i].st = "done", ![i].call = NoCall]
      r1 == [r EXCEPT !.cat[c].fw = FetchNext(ws),
                      !.cat[c].productPages = SetResult(r.cat[c].productPages, i, html)]
  IN  IF r.cat[c].phase = "products" THEN AfterProducts(r1, c) ELSE r1

\* A product worker settled with html (lines 183-188): its slot goes to the
\* next queued worker, its value to Promise.all.
ProductWorkerDone(r, c, i, html) ==
  LET ws == [r.cat[c].fw EXCEPT ![i].st = "done", ![i].call = NoCall]
      r1 == [r EXCEPT !.cat[c].fw = FetchNext(ws),
                      !.cat[c].productPages = SetResult(r.cat[c].productPages, i, html)]
  IN  IF Settled(ws) THEN AfterProducts(r1, c) ELSE r1

\* Mutant of ProductWorkerCatch: the worker has no catch, so it rejects and
\* Promise.all with it.
ProductWorkerRethrows(r, c, i) == Reject(r, c, "worker")

\* The worker's catch (lines 185-188): fetchWithRetry threw; the failure is
\* logged and the worker returns "".
ProductWorkerCatch(r, c, i) ==
  ProductWorkerDone(Logged(r, "Product fetch failed", r.cat[c].fw[i].url), c, i, EMPTY)

\* An image worker settled with outcome out: its slot goes to the next queued
\* worker; Promise.all rejects on the first rejection and resolves when
\* every worker is done.
DlWorkerSettled(r, c, i, out) ==
  LET w  == [r.cat[c].dl[i] EXCEPT !.st = IF out = "rejected" THEN "rejected" ELSE "done",
                                   !.out = out, !.attempt = 0, !.ms = 0, !.gets = 0,
                                   !.got = 0]
      ws == [r.cat[c].dl EXCEPT ![i] = w]
      p  == DlNext(c, [dl |-> ws, index |-> r.cat[c].index])
      r1 == [r EXCEPT !.cat[c].dl = p.dl, !.cat[c].index = p.index]
  IN  IF r.cat[c].phase # "download" THEN Retire(r1, c)
      ELSE IF out = "rejected" THEN Reject(r1, c, "worker")
      ELSE IF Settled(ws) THEN Return(r1, c)
      ELSE r1

\* The downloadFile call of worker w, as it returns or rejects.
DownloadCall(w, st, okAt) ==
  [NoCall EXCEPT !.op = "downloadFile", !.url = w.url, !.st = st, !.attempt = w.attempt,
                 !.gets = w.gets, !.okAt = okAt,
                 !.err = IF st = "returned" /\ okAt = 0 THEN w.attempt ELSE 0]

\* downloadFile returned (line 218): the worker logs the download (line 219)
\* and is done.
DownloadReturned(r, c, i, out, okAt) ==
  LET w == r.cat[c].dl[i]
  IN  DlWorkerSettled(Logged(Completed(r, DownloadCall(w, "returned", okAt)),
                             "Downloaded", w.url),
                      c, i, out)

\* Mutant of DownloadCatch: on the last attempt the failure is logged and
\* thrown again, so the worker rejects.
DownloadCatchRethrows(r, c, i) ==
  LET w == r.cat[c].dl[i]
  IN  IF w.attempt >= MAX_RETRIES
        THEN DlWorkerSettled(Completed(Logged(r, "Failed", w.url), DownloadCall(w, "rejected", 0)),
                             c, i, "rejected")
      ELSE [r EXCEPT !.cat[c].dl[i].st = "sleep",
                     !.cat[c].dl[i].ms = RETRY_DELAY_MS * w.attempt]

\* downloadFile's catch (lines 107-113): on the last attempt the failure is
\* logged and downloadFile returns; else it sleeps RETRY_DELAY_MS * attempt.
DownloadCatch(r, c, i) ==
  LET w == r.cat[c].dl[i]
  IN  IF w.attempt >= MAX_RETRIES
        THEN DownloadReturned(Logged(r, "Failed", w.url), c, i, "failed", 0)
      ELSE [r EXCEPT !.cat[c].dl[i].st = "sleep",
                     !.cat[c].dl[i].ms = RETRY_DELAY_MS * w.attempt]

Sys == [main |-> main, cat |-> cat, ev |-> NoEv]

Becomes(r) == main' = r.main /\ cat' = r.cat /\ ev' = r.ev /\ UNCHANGED helper

(***************************************************************************)
(* The initial states: nothing has run; the output tree holds the files of *)
(* an earlier run: all of them, or all but the second of each category     *)
(* (which leaves the folder of the first category empty).                  *)
(***************************************************************************)
\* The final image set of category c when every fetch succeeds.
FullImages(c) ==
  allImagesOf(extractCategoryImages(ListingDoc(c)),
              MapSeq(extractProductLinks(ListingDoc(c)), PageAt))

OLD == <<"#old">>

FullDisk == [d \in UNION {Range(DestsOf(c, FullImages(c))) : c \in Cats} |-> OLD]

\* The files an interrupted run left: of each category, all but the second.
PartialDisk ==
  LET missing(c) == {DestsOf(c, FullImages(c))[i] : i \in {2} \cap 1..Len(FullImages(c))}
  IN  [d \in DOMAIN FullDisk \ UNION {missing(c) : c \in Cats} |-> OLD]

\* The directories that hold the files of d.
DirsOf(d) == {f.dir : f \in DOMAIN d}

Init ==
  /\ main = [pc |-> "ensureRoot", cur |-> 0, attempted |-> <<>>]
  /\ cat = [c \in Cats |-> InitCat]
  /\ disk \in {PartialDisk, FullDisk}
  /\ dirs = DirsOf(disk)
  /\ ev = NoEv
  /\ fails = 0
  /\ helper = NoHelper

(***************************************************************************)
(* Actions: an awaited operation settles and its continuation runs.        *)
(***************************************************************************)
\* main, line 231: fs.ensureDir(OUTPUT_DIR) succeeded; the loop is entered.
EnsureRootOk ==
  /\ main.pc = "ensureRoot"
  /\ Becomes(MainResume(Sys))
  /\ dirs' = dirs \cup {OUTPUT_DIR}
  /\ UNCHANGED <<disk, fails>>

\* main, line 231: fs.ensureDir(OUTPUT_DIR) failed; main rejects.
EnsureRootFails ==
  /\ main.pc = "ensureRoot"
  /\ fails < MaxFail
  /\ Becomes([Sys EXCEPT !.main.pc = "crashed"])
  /\ fails' = fails + 1
  /\ UNCHANGED <<disk, dirs>>

\* Line 165 succeeded: lines 167-171, the listing GET is issued.
EnsureFolderOk(c) ==
  /\ cat[c].phase = "ensureDir"
  /\ Becomes([Sys EXCEPT !.cat[c].phase = "listing",
                         !.cat[c].call = fetchWithRetry(toAbs(CATEGORIES[c].rel))])
  /\ dirs' = dirs \cup {folderOf(c)}
  /\ UNCHANGED <<disk, fails>>

\* Line 165 failed: scrapeCategory rejects.
EnsureFolderFails(c) ==
  /\ cat[c].phase = "ensureDir"
  /\ fails < MaxFail
  /\ Becomes(Reject(Sys, c, "ensureDir"))
  /\ fails' = fails + 1
  /\ UNCHANGED <<disk, dirs>>

\* The listing GET answered.
ListingGetOk(c) ==
  /\ cat[c].phase = "listing" /\ cat[c].call.st = "get"
  /\ LET call == FetchResolved(cat[c].call, PageAt(cat[c].call.url))
     IN  Becomes(AfterListing(Completed(Sys, call), c, call.res))
  /\ UNCHANGED <<disk, dirs, fails>>

\* The listing GET failed: a retry is planned, or the category is aborted.
ListingGetFails(c) ==
  /\ cat[c].phase = "listing" /\ cat[c].call.st = "get"
  /\ fails < MaxFail
  /\ LET call == FetchRejected(cat[c].call)
     IN  Becomes(IF call.st = "thrown" THEN Reject(Completed(Sys, call), c, "listing")
                 ELSE [Sys EXCEPT !.cat[c].call = call])
  /\ fails' = fails + 1
  /\ UNCHANGED <<disk, dirs>>

ListingSleepEnds(c) ==
  /\ cat[c].phase = "listing" /\ cat[c].call.st = "sleep"
  /\ Becomes([Sys EXCEPT !.cat[c].call = FetchRetry(@)])
  /\ UNCHANGED <<disk, dirs, fails>>

\* The GET of product page i answered: the worker returns res.data.
ProductGetOk(c, i) ==
  /\ cat[c].phase = "products" /\ i \in 1..Len(cat[c].fw)
  /\ cat[c].fw[i].st = "run" /\ cat[c].fw[i].call.st = "get"
  /\ LET call == FetchResolved(cat[c].fw[i].call, PageAt(cat[c].fw[i].url))
     IN  Becomes(ProductWorkerDone(Completed(Sys, call), c, i, call.res))
  /\ UNCHANGED <<disk, dirs, fails>>

\* The GET of product page i failed: a retry is planned, or fetchWithRetry
\* throws and the worker catches.
ProductGetFails(c, i) ==
  /\ cat[c].phase = "products" /\ i \in 1..Len(cat[c].fw)
  /\ cat[c].fw[i].st = "run" /\ cat[c].fw[i].call.st = "get"
  /\ fails < MaxFail
  /\ LET call == FetchRejected(cat[c].fw[i].call)
     IN  Becomes(IF call.st = "thrown" THEN ProductWorkerCatch(Completed(Sys, call), c, i)
                 ELSE [Sys EXCEPT !.cat[c].fw[i].call = call])
  /\ fails' = fails + 1
  /\ UNCHANGED <<disk, dirs>>

ProductSleepEnds(c, i) ==
  /\ cat[c].phase = "products" /\ i \in 1..Len(cat[c].fw)
  /\ cat[c].fw[i].st = "run" /\ cat[c].fw[i].call.st = "sleep"
  /\ Becomes([Sys EXCEPT !.cat[c].fw[i].call = FetchRetry(@)])
  /\ UNCHANGED <<disk, dirs, fails>>

\* Mutant of pathExists: the file is never found.
pathExistsNever(dest) == FALSE

\* fs.pathExists(dest): is there a file at dest?
pathExists(dest) == dest \in DOMAIN disk

\* fs.pathExists(dest) answered (line 217; it never rejects): the worker is
\* done if the file is there, else it calls downloadFile, which awaits
\* fs.ensureDir (line 99).
PathExistsReturns(c, i) ==
  /\ i \in 1..Len(cat[c].dl)
  /\ cat[c].dl[i].st = "pathExists"
  /\ Becomes(IF pathExists(cat[c].dl[i].dest)
               THEN DlWorkerSettled(Sys, c, i, "skipped")
             ELSE [Sys EXCEPT !.cat[c].dl[i].st = "ensureDir",
                              !.cat[c].dl[i].attempt = 1])
  /\ UNCHANGED <<disk, dirs, fails>>

\* Line 99 succeeded: the image GET is issued (line 101).
DlEnsureDirOk(c, i) ==
  /\ i \in 1..Len(cat[c].dl)
  /\ cat[c].dl[i].st = "ensureDir"
  /\ Becomes([Sys EXCEPT !.cat[c].dl[i].st = "get", !.cat[c].dl[i].gets = @ + 1])
  /\ dirs' = dirs \cup {cat[c].dl[i].dest.dir}
  /\ UNCHANGED <<disk, fails>>

\* Line 99 failed, outside the try: downloadFile rejects, and the worker.
DlEnsureDirFails(c, i) ==
  /\ i \in 1..Len(cat[c].dl)
  /\ cat[c].dl[i].st = "ensureDir"
  /\ fails < MaxFail
  /\ Becomes(DlWorkerSettled(Completed(Sys, DownloadCall(cat[c].dl[i], "rejected", 0)),
                             c, i, "rejected"))
  /\ fails' = fails + 1
  /\ UNCHANGED <<disk, dirs>>

\* The image GET answered: fs.writeFile(dest, res.data) is issued (line 106).
AssetGetOk(c, i) ==
  /\ i \in 1..Len(cat[c].dl)
  /\ cat[c].dl[i].st = "get"
  /\ Becomes([Sys EXCEPT !.cat[c].dl[i].st = "writeFile",
                         !.cat[c].dl[i].got = cat[c].dl[i].attempt])
  /\ UNCHANGED <<disk, dirs, fails>>

\* The image GET failed: the catch.
AssetGetFails(c, i) ==
  /\ i \in 1..Len(cat[c].dl)
  /\ cat[c].dl[i].st = "get"
  /\ fails < MaxFail
  /\ Becomes(DownloadCatch(Sys, c, i))
  /\ fails' = fails + 1
  /\ UNCHANGED <<disk, dirs>>

\* The write succeeded: the file holds the bytes of the image; downloadFile
\* returns.
WriteFileOk(c, i) ==
  /\ i \in 1..Len(cat[c].dl)
  /\ cat[c].dl[i].st = "writeFile"
  /\ LET w == cat[c].dl[i]
     IN  /\ disk' = [d \in DOMAIN disk \cup {w.dest} |->
                       IF d = w.dest THEN w.url ELSE disk[d]]
         /\ Becomes(DownloadReturned(Sys, c, i, "written", w.attempt))
  /\ UNCHANGED <<dirs, fails>>

\* What a write that failed midway leaves of the bytes of url.
PartOf(url) == <<"#part">> \o url

\* The write failed: the catch.  fs.writeFile opens dest with flag "w" and
\* then writes: if the open fails nothing is created, if a write fails (disk
\* full, I/O error) the file stays, created or truncated, with part of the
\* bytes.
WriteFileFails(c, i) ==
  /\ i \in 1..Len(cat[c].dl)
  /\ cat[c].dl[i].st = "writeFile"
  /\ fails < MaxFail
  /\ LET w == cat[c].dl[i]
     IN  \/ UNCHANGED disk
         \/ disk' = [d \in DOMAIN disk \cup {w.dest} |->
                       IF d = w.dest THEN PartOf(w.url) ELSE disk[d]]
  /\ Becomes(DownloadCatch(Sys, c, i))
  /\ fails' = fails + 1
  /\ UNCHANGED dirs

\* The sleep is over: downloadFile(url, dest, attempt + 1), line 113.
DlSleepEnds(c, i) ==
  /\ i \in 1..Len(cat[c].dl)
  /\ cat[c].dl[i].st = "sleep"
  /\ Becomes([Sys EXCEPT !.cat[c].dl[i].st = "ensureDir", !.cat[c].dl[i].attempt = @ + 1,
                         !.cat[c].dl[i].ms = 0])
  /\ UNCHANGED <<disk, dirs, fails>>

\* The most workers a pool holds on this site.
MaxItems == Max(FETCH_CONCURRENCY, DOWNLOAD_CONCURRENCY) + 1

Next ==
  \/ EnsureRootOk
  \/ EnsureRootFails
  \/ \E c \in Cats :
       \/ EnsureFolderOk(c)
       \/ EnsureFolderFails(c)
       \/ ListingGetOk(c)
       \/ ListingGetFails(c)
       \/ ListingSleepEnds(c)
       \/ \E i \in 1..MaxItems :
            \/ ProductGetOk(c, i)
            \/ ProductGetFails(c, i)
            \/ ProductSleepEnds(c, i)
            \/ PathExistsReturns(c, i)
            \/ DlEnsureDirOk(c, i)
            \/ DlEnsureDirFails(c, i)
            \/ AssetGetOk(c, i)
            \/ AssetGetFails(c, i)
            \/ WriteFileOk(c, i)
            \/ WriteFileFails(c, i)
            \/ DlSleepEnds(c, i)

Spec == Init /\ [][Next]_vars

(***************************************************************************)
(* The helpers called on their own: toAbs on a reference, twice over, and  *)
(* each extractor on a document.  The program itself does not run.         *)
(***************************************************************************)
\* The longest reference and the longest document tried.
MaxRefLen == 3

MaxDocLen == 2

\* The tokens references are made of.
RefTokens == {"/", ".", "..", " ", "https://", "HTTP://", "data:", "[", "a", ".jpg", "?"}

\* Every reference of at most MaxRefLen tokens, "" among them, and the
\* missing attribute.
Refs == UNION {[1..n -> RefTokens] : n \in 0..MaxRefLen} \cup {NULL}

\* The attribute values the documents tried hold.
DocRefs ==
  { NULL,
    <<"images", "/", "produits", "/", "a", ".jpg">>,
    <<"https://", "cdn.host", "/", "b", ".png">>,
    <<"prod", "/", "p1">>,
    <<"/", "/", "/">> }

DocElems ==
  UNION {{CardImg(r), CardLink(r), ThumbDiv(r), PlainImg(r)} : r \in DocRefs}

Docs == UNION {[1..n -> DocElems] : n \in 0..MaxDocLen}

Extractors == {"extractCategoryImages", "extractProductLinks", "extractProductImages"}

\* The result of extractor fn on html, and whether it raises instead.
Extract(fn, html) ==
  CASE fn = "extractCategoryImages" -> extractCategoryImages(html)
    [] fn = "extractProductLinks"   -> extractProductLinks(html)
    [] fn = "extractProductImages"  -> extractProductImages(html)

ExtractThrows(fn, html) ==
  CASE fn = "extractCategoryImages" -> extractCategoryImagesThrows(html)
    [] fn = "extractProductLinks"   -> extractProductLinksThrows(html)
    [] fn = "extractProductImages"  -> extractProductImagesThrows(html)

HelperInit ==
  /\ main = [pc |-> "ensureRoot", cur |-> 0, attempted |-> <<>>]
  /\ cat = [c \in Cats |-> InitCat]
  /\ disk = FullDisk
  /\ dirs = DirsOf(disk)
  /\ ev = NoEv
  /\ fails = 0
  /\ \/ \E r \in Refs :
          helper = [NoHelper EXCEPT !.fn = "toAbs", !.st = "called", !.ref = r]
     \/ \E fn \in Extractors, d \in Docs :
          helper = [NoHelper EXCEPT !.fn = fn, !.st = "called", !.doc = d]

\* toAbs(ref) returns (lines 66-68).
ToAbsReturns ==
  /\ helper.fn = "toAbs" /\ helper.st = "called"
  /\ toAbs(helper.ref) # THROWN
  /\ helper' = [helper EXCEPT !.st = "returned", !.abs = toAbs(helper.ref), !.n = @ + 1]
  /\ UNCHANGED <<main, cat, disk, dirs, ev, fails>>

\* toAbs(ref) raises: new URL(...) could not parse the reference (line 68).
ToAbsRaises ==
  /\ helper.fn = "toAbs" /\ helper.st = "called"
  /\ toAbs(helper.ref) = THROWN
  /\ helper' = [helper EXCEPT !.st = "raised"]
  /\ UNCHANGED <<main, cat, disk, dirs, ev, fails>>

\* toAbs is called on the URL it has just returned.
ToAbsAgain ==
  /\ helper.fn = "toAbs" /\ helper.st = "returned" /\ helper.n = 1
  /\ helper.abs # NULL
  /\ helper' = [helper EXCEPT !.st = "called", !.ref = helper.abs]
  /\ UNCHANGED <<main, cat, disk, dirs, ev, fails>>

\* An extractor returns the URLs of the document (lines 127, 137, 156).
ExtractReturns ==
  /\ helper.fn \in Extractors /\ helper.st = "called"
  /\ ~ ExtractThrows(helper.fn, helper.doc)
  /\ helper' = [helper EXCEPT !.st = "returned",
                              !.urls = Extract(helper.fn, helper.doc), !.n = @ + 1]
  /\ UNCHANGED <<main, cat, disk, dirs, ev, fails>>

\* An extractor raises: toAbs raised on one of the references (lines 124,
\* 136, 146, 152).
ExtractRaises ==
  /\ helper.fn \in Extractors /\ helper.st = "called"
  /\ ExtractThrows(helper.fn, helper.doc)
  /\ helper' = [helper EXCEPT !.st = "raised"]
  /\ UNCHANGED <<main, cat, disk, dirs, ev, fails>>

HelperNext ==
  \/ ToAbsReturns
  \/ ToAbsRaises
  \/ ToAbsAgain
  \/ ExtractReturns
  \/ ExtractRaises

HelperSpec == HelperInit /\ [][HelperNext]_vars

\* Every GET, every filesystem call and every timer that is pending
\* eventually returns, fails or fires: none of main (line 231), a
\* scrapeCategory call (lines 165, 171), a product worker (line 183) or an
\* image worker (lines 217, 99, 101, 106, 111) waits for ever at one await.
FairSpec ==
  /\ Spec
  /\ WF_vars(EnsureRootOk \/ EnsureRootFails)
  /\ \A c \in Cats :
       /\ []<>(cat[c].phase # "ensureDir")
       /\ \A st \in {"get", "sleep"} : []<>(cat[c].call.st # st)
       /\ \A i \in 1..MaxItems :
            /\ \A st \in {"get", "sleep"} :
                 []<>(i \in DOMAIN cat[c].fw => cat[c].fw[i].call.st # st)
            /\ \A st \in {"pathExists", "ensureDir", "get", "writeFile", "sleep"} :
                 []<>(i \in DOMAIN cat[c].dl => cat[c].dl[i].st # st)

(***************************************************************************)
(* Properties                                                              *)
(***************************************************************************)
NoDuplicates(seq) == \A i, j \in 1..Len(seq) : i # j => seq[i] # seq[j]

\* C1: in every scrapeCategory call, at every instant, at most
\* FETCH_CONCURRENCY product-page workers have started and not finished
\* (a worker sleeping before a retry counts), and at most
\* DOWNLOAD_CONCURRENCY image workers have.
C1_PoolCaps ==
  \A c \in Cats :
    /\ ActiveCount(cat[c].fw) <= FETCH_CONCURRENCY
    /\ ActiveCount(cat[c].dl) <= DOWNLOAD_CONCURRENCY

\* C1, witness: more product links than the limit; the pool is full, one of
\* its workers sleeps before a retry and one link waits in the queue.
C1_Witness ==
  \E c \in Cats :
    /\ Len(cat[c].fw) > FETCH_CONCURRENCY
    /\ ActiveCount(cat[c].fw) = FETCH_CONCURRENCY
    /\ QueueSize(cat[c].fw) > 0
    /\ \E i \in 1..Len(cat[c].fw) : cat[c].fw[i].call.st = "sleep"

\* C2: a product page whose fetch fails on all MAX_RETRIES attempts does not
\* abort the category: its slot holds "", every other link is still fetched,
\* and the final image set holds every image of the pages that were fetched.
C2_ProductFailureIsolated ==
  \A c \in Cats :
    /\ ( /\ ev.call.op = "fetchWithRetry" /\ ev.call.st = "thrown"
         /\ ev.call.url \in Range(cat[c].productLinks) )
       => cat[c].phase \in {"products", "download"}
    /\ cat[c].phase = "download" =>
         /\ Len(cat[c].productPages) = Len(cat[c].productLinks)
         /\ \A i \in 1..Len(cat[c].productLinks) :
              /\ cat[c].productPages[i] \in {EMPTY, PageAt(cat[c].productLinks[i])}
              /\ Range(extractProductImages(cat[c].productPages[i]))
                   \subseteq Range(cat[c].allImages)

\* C2, witness: the downloads of a category have begun although one product
\* page failed; the images of another page are in the final image set.
C2_Witness ==
  \E c \in Cats :
    /\ cat[c].phase = "download"
    /\ \E i, j \in 1..Len(cat[c].productLinks) :
         /\ cat[c].productPages[i] = EMPTY
         /\ cat[c].productPages[j] # EMPTY
         /\ extractProductImages(cat[c].productPages[j]) # <<>>
         /\ Range(extractProductImages(cat[c].productPages[j]))
              \subseteq Range(cat[c].allImages)

\* C3: a category whose listing fetch failed on all attempts is the only one
\* aborted: main does not stop, it goes on to the next category, and at the
\* end every later category has been attempted and has settled, its
\* download phase over if it returned.
C3_ListingFailureIsolated ==
  \A k \in Cats :
    cat[k].why = "listing" =>
      /\ main.pc # "crashed"
      /\ IF k < NumCategories THEN main.cur > k ELSE main.pc = "done"
      /\ main.pc = "done" =>
           \A j \in (k + 1)..NumCategories :
             /\ j \in Range(main.attempted)
             /\ cat[j].phase \in {"returned", "rejected"}
             /\ cat[j].phase = "returned" => Settled(cat[j].dl)

\* C3, witness: the run is over, the listing of the first category failed,
\* and the second category returned after writing a file.
C3_Witness ==
  /\ main.pc = "done"
  /\ cat[1].why = "listing"
  /\ cat[2].phase = "returned"
  /\ \E d \in DOMAIN disk : d.dir = folderOf(2) /\ disk[d] \in Range(FullImages(2))

\* C4: when every destination of the final image set is on disk as the
\* download phase begins, no worker of the phase ever gets past the
\* existence check: downloadFile is not called and no image GET is issued.
C4_NoFetchWhenPresent ==
  \A c \in Cats :
    (cat[c].phase = "download" /\ cat[c].present) =>
      /\ ev.call.op = "downloadFile" => ev.call.url \notin Range(cat[c].allImages)
      /\ \A i \in 1..Len(cat[c].dl) :
           /\ cat[c].dl[i].st \in {"queued", "pathExists", "done"}
           /\ cat[c].dl[i].gets = 0
           /\ cat[c].dl[i].st = "done" => cat[c].dl[i].out = "skipped"

\* C4, witness: such a download phase, some of its workers done and all its
\* files still those of the earlier run.
C4_Witness ==
  \E c \in Cats :
    /\ cat[c].phase = "download" /\ cat[c].present
    /\ Len(cat[c].dl) > DOWNLOAD_CONCURRENCY
    /\ \E i \in 1..Len(cat[c].dl) : cat[c].dl[i].out = "skipped"
    /\ \A i \in 1..Len(cat[c].dl) :
         cat[c].dl[i].st # "queued" => disk[cat[c].dl[i].dest] = OLD

\* C5: the final image set handed to the download phase holds no URL twice,
\* and the workers of the phase are those of its URLs, one each.
C5_NoDuplicateImages ==
  \A c \in Cats :
    cat[c].phase = "download" =>
      /\ NoDuplicates(cat[c].allImages)
      /\ Len(cat[c].dl) = Len(cat[c].allImages)
      /\ \A i \in 1..Len(cat[c].dl) : cat[c].dl[i].url = cat[c].allImages[i]

\* C5, witness: a download phase whose final image set holds a URL that is
\* both a thumbnail of the listing and an image of a product page, and a URL
\* that two product pages show.
C5_Witness ==
  \E c \in Cats :
    /\ cat[c].phase = "download"
    /\ \E u \in Range(cat[c].catThumbs), i \in 1..Len(cat[c].productPages) :
         u \in Range(extractProductImages(cat[c].productPages[i]))
    /\ \E i, j \in 1..Len(cat[c].productPages) :
         /\ i # j
         /\ Range(extractProductImages(cat[c].productPages[i]))
              \cap Range(extractProductImages(cat[c].productPages[j])) # {}

\* C6: within one category run, two different URLs of the final image set
\* never get the same destination path (URLs with the same basename under
\* different directories, or differing only in their query string, included).
C6_DistinctDestinations ==
  \A c \in Cats :
    \A i, j \in 1..Len(cat[c].dl) :
      ( /\ cat[c].dl[i].dest # NoDest /\ cat[c].dl[j].dest # NoDest
        /\ cat[c].dl[i].url # cat[c].dl[j].url )
      => cat[c].dl[i].dest # cat[c].dl[j].dest

\* C7: no call of fetchWithRetry or downloadFile issues more than
\* MAX_RETRIES GETs; fetchWithRetry returns the response of the first attempt
\* that succeeds, and throws the failure of attempt MAX_RETRIES when all fail.
C7_RetryBudget ==
  /\ \A c \in Cats :
       /\ cat[c].call.gets <= MAX_RETRIES
       /\ \A i \in 1..Len(cat[c].fw) : cat[c].fw[i].call.gets <= MAX_RETRIES
       /\ \A i \in 1..Len(cat[c].dl) : cat[c].dl[i].gets <= MAX_RETRIES
  /\ ev.call.gets <= MAX_RETRIES
  /\ ev.call.op = "fetchWithRetry" =>
       /\ ev.call.st \in {"returned", "thrown"}
       /\ ev.call.st = "returned" =>
            /\ ev.call.okAt = ev.call.gets
            /\ ev.call.res = PageAt(ev.call.url)
       /\ ev.call.st = "thrown" =>
            /\ ev.call.gets = MAX_RETRIES
            /\ ev.call.err = MAX_RETRIES

\* C7, witness: a fetchWithRetry call has just thrown after MAX_RETRIES GETs.
C7_Witness ==
  /\ ev.call.op = "fetchWithRetry" /\ ev.call.st = "thrown"
  /\ ev.call.gets = MAX_RETRIES

\* C8: productPages is index-aligned with productLinks: slot i is filled
\* when worker i is done, and holds the body fetched for productLinks[i], or
\* "" if that fetch failed, whatever order the workers finish in.
C8_IndexAligned ==
  \A c \in Cats :
    /\ Len(cat[c].productPages) = Len(cat[c].productLinks)
    /\ Len(cat[c].fw) = Len(cat[c].productLinks)
    /\ \A i \in 1..Len(cat[c].productLinks) :
         /\ cat[c].fw[i].url = cat[c].productLinks[i]
         /\ cat[c].productPages[i]
              \in {UNSET, EMPTY, PageAt(cat[c].productLinks[i])}
         /\ cat[c].productPages[i] # UNSET <=> cat[c].fw[i].st = "done"

\* C8, witness: a later link's page has arrived before an earlier link's,
\* and some link's fetch has failed.
C8_Witness ==
  \E c \in Cats :
    \E i, j, k \in 1..Len(cat[c].productLinks) :
      /\ i < j
      /\ cat[c].productPages[i] = UNSET
      /\ cat[c].productPages[j] = PageAt(cat[c].productLinks[j])
      /\ cat[c].productPages[k] = EMPTY

\* The GETs in flight over the whole run.
GetsInFlight ==
  LET F(c) == {i \in 1..Len(cat[c].fw) : cat[c].fw[i].call.st = "get"}
      D(c) == {i \in 1..Len(cat[c].dl) : cat[c].dl[i].st = "get"}
      L    == {c \in Cats : cat[c].call.st = "get"}
      Sum[k \in 0..NumCategories] ==
        IF k = 0 THEN 0 ELSE Sum[k - 1] + Cardinality(F(k)) + Cardinality(D(k))
  IN  Sum[NumCategories] + Cardinality(L)

\* C9: categories are processed strictly one at a time: once main has gone
\* past category k, no worker of k is in flight or queued, and the GETs in
\* flight over the whole run never exceed the larger of the two limits.
C9_OneCategoryAtATime ==
  /\ \A k \in Cats :
       main.cur > k =>
         /\ Settled(cat[k].fw) /\ Settled(cat[k].dl)
         /\ cat[k].call.st \notin {"get", "sleep"}
  /\ GetsInFlight <= Max(FETCH_CONCURRENCY, DOWNLOAD_CONCURRENCY)

AllCategories == [i \in 1..NumCategories |-> i]

C11_ExactUnion ==
  \A c \in Cats :
    cat[c].phase = "download" =>
      LET links == extractProductLinks(ListingDoc(c))
          ok    == {i \in 1..Len(links) : cat[c].productPages[i] # EMPTY}
      IN  /\ cat[c].productLinks = links
          /\ Range(cat[c].allImages) =
               Range(extractCategoryImages(ListingDoc(c)))
               \cup UNION {Range(extractProductImages(PageAt(links[i]))) : i \in ok}

\* C11, witness: the downloads have begun; a product page failed, an image
\* of the set is on the listing only and another on a product page only.
C11_Witness ==
  \E c \in Cats :
    /\ cat[c].phase = "download"
    /\ \E i \in 1..Len(cat[c].productPages) : cat[c].productPages[i] = EMPTY
    /\ LET fromPages == UNION {Range(extractProductImages(cat[c].productPages[i])) :
                                 i \in 1..Len(cat[c].productPages)}
       IN  /\ Range(cat[c].catThumbs) \ fromPages # {}
           /\ fromPages \ Range(cat[c].catThumbs) # {}
           /\ Range(cat[c].allImages) = Range(cat[c].catThumbs) \cup fromPages

\* C12: toAbs is idempotent: when toAbs(r) returns a URL, toAbs of that URL
\* returns it unchanged (and does not raise); toAbs of null or of "" is null.
C12_ToAbsIdempotent ==
  helper.fn = "toAbs" =>
    /\ (helper.n = 2 /\ helper.st = "returned") => helper.abs = helper.ref
    /\ helper.n = 1 => helper.st # "raised"
    /\ (helper.st = "returned" /\ helper.ref \in {NULL, EMPTY}) => helper.abs = NULL

\* C12, witness: toAbs has returned for the second time, the first call
\* having resolved a reference that was not a URL yet.
C12_Witness ==
  /\ helper.fn = "toAbs" /\ helper.n = 2 /\ helper.st = "returned"
  /\ Len(helper.abs) > MaxRefLen
  /\ SubSeq(helper.abs, 1, Len(BASE_URL)) = BASE_URL

\* C13: the phases of a category run follow one another: a product worker
\* exists only once the listing fetch has returned; an image worker has
\* started only once every product worker is done and has given its page;
\* and whenever an image worker is fetching, writing or sleeping before a
\* retry, the directory of the category exists.
C13_PhasesInOrder ==
  \A c \in Cats :
    /\ cat[c].fw # <<>> =>
         /\ cat[c].phase \notin {"idle", "ensureDir", "listing"}
         /\ cat[c].call.st \notin {"get", "sleep"}
    /\ (\E i \in 1..Len(cat[c].dl) : cat[c].dl[i].st # "queued") =>
         /\ Settled(cat[c].fw)
         /\ \A j \in 1..Len(cat[c].productPages) : cat[c].productPages[j] # UNSET
    /\ \A i \in 1..Len(cat[c].dl) :
         cat[c].dl[i].st \in {"get", "writeFile", "sleep"} => folderOf(c) \in dirs

\* C13, witness: an image of a category whose directory held no file is
\* being fetched, after product fetches of which one was retried.
C13_Witness ==
  \E c \in Cats :
    /\ Len(cat[c].fw) > FETCH_CONCURRENCY /\ Settled(cat[c].fw)
    /\ \E j \in 1..Len(cat[c].productPages) : cat[c].productPages[j] = EMPTY
    /\ \E i \in 1..Len(cat[c].dl) : cat[c].dl[i].st = "get"
    /\ \A f \in DOMAIN disk : f.dir # folderOf(c)

\* The category whose final image set may hold url.
CategoryOf(url) == CHOOSE c \in Cats : url \in Range(FullImages(c))

\* Has the continuation that has just run logged line?
LogHas(line) == \E l \in ev.log : l.line = line

\* C14: when the download of an image has failed on all MAX_RETRIES
\* attempts, the category is not aborted by it: main's catch does not run,
\* the scrapeCategory call goes on with the other images, or returns if this
\* image was the last, and it is rejected only if a worker had rejected it
\* before.
C14_DownloadFailureIsolated ==
  LogHas("Failed") =>
    LET c == CategoryOf(ev.call.url)
    IN  /\ ev.call.op = "downloadFile" /\ ev.call.gets <= MAX_RETRIES
        /\ ~ LogHas("Category failed")
        /\ main.pc # "crashed"
        /\ \/ cat[c].phase = "download" /\ ~ Settled(cat[c].dl)
           \/ cat[c].phase = "returned" /\ Settled(cat[c].dl)
           \/ cat[c].phase = "rejected" /\ cat[c].why = "worker"

\* C14, witness: the last image of a category has just failed for good; the
\* call has returned, main has moved on, and another image of the category
\* was written during the run.
C14_Witness ==
  /\ LogHas("Failed")
  /\ LET c == CategoryOf(ev.call.url)
     IN  /\ cat[c].phase = "returned"
         /\ main.cur > c \/ main.pc = "done"
         /\ \E f \in DOMAIN disk : f.dir = folderOf(c) /\ disk[f] \in Range(FullImages(c))

\* C15: within one call of fetchWithRetry or of downloadFile, once a GET
\* has answered no further GET is issued, also when the write of the bytes
\* then fails.
C15_NoGetAfterSuccess ==
  /\ \A c \in Cats : \A i \in 1..Len(cat[c].dl) :
       cat[c].dl[i].st = "get" => cat[c].dl[i].got = 0
  /\ (ev.call.op = "fetchWithRetry" /\ ev.call.st = "returned") =>
       ev.call.okAt = ev.call.gets


\* The calls of fetchWithRetry and of downloadFile that are under way: for
\* each its state, its attempt and the delay it is sleeping.
CallsUnderWay ==
  UNION {{[st |-> cat[c].call.st, attempt |-> cat[c].call.attempt, ms |-> cat[c].call.ms]}
           \cup {[st |-> cat[c].fw[i].call.st, attempt |-> cat[c].fw[i].call.attempt,
                  ms |-> cat[c].fw[i].call.ms] : i \in 1..Len(cat[c].fw)}
           \cup {[st |-> cat[c].dl[i].st, attempt |-> cat[c].dl[i].attempt,
                  ms |-> cat[c].dl[i].ms] : i \in 1..Len(cat[c].dl)}
         : c \in Cats}

\* C16: a call sleeps only after a failed attempt n < MAX_RETRIES, for
\* RETRY_DELAY_MS * n (1200 ms, then 2400 ms); outside a sleep no delay is
\* pending, and a call that returned or threw slept after neither its
\* success nor its attempt MAX_RETRIES.
C16_LinearBackoff ==
  /\ \A k \in CallsUnderWay :
       IF k.st = "sleep"
         THEN /\ k.attempt \in 1..(MAX_RETRIES - 1)
              /\ k.ms = 1200 * k.attempt
         ELSE k.ms = 0
  /\ ev.call.st \in {"returned", "thrown"} => ev.call.ms = 0

\* Some call is sleeping 2400 ms after its second failed attempt while
\* another sleeps 1200 ms after its first.
C16_Witness ==
  /\ \E k \in CallsUnderWay : k.st = "sleep" /\ k.attempt = 2 /\ k.ms = 2400
  /\ \E k \in CallsUnderWay : k.st = "sleep" /\ k.attempt = 1 /\ k.ms = 1200


\* C17: the success line is logged only for an image that was fetched and
\* written during this run; a download that exhausted its retries gets the
\* failure line and no success line.
C17_SuccessLogOnlyWhenWritten ==
  \A l \in ev.log :
    l.line = "Downloaded" =>
      /\ ev.call.op = "downloadFile" /\ ev.call.url = l.about
      /\ ev.call.okAt > 0
      /\ ~ LogHas("Failed")


\* C18: toAbs answers a reference it cannot parse with null instead of
\* raising, so neither toAbs nor an extractor that calls it ever raises.
C18_HelpersNeverRaise == helper.st # "raised"


\* The image workers of category c that were entered and fell back to the
\* synthetic name.
SyntheticWorkers(c) ==
  {i \in 1..Len(cat[c].dl) : cat[c].dl[i].st # "queued" /\ UsesIndex(cat[c].dl[i].url)}

\* The sequence number in the synthetic name of worker i: the three digits
\* before the extension.
SequenceOf(c, i) ==
  LET name   == cat[c].dl[i].dest.name
      val(k) == CHOOSE d \in 0..9 : DigitTok[d + 1] = name[Len(name) - k]
  IN  100 * val(3) + 10 * val(2) + val(1)

\* C19: within a category run any two images that fall back to the synthetic
\* name get distinct sequence numbers, and the numbers given so far are
\* 1, 2, 3, ... without a gap, whatever the workers' interleaving.
C19_SequenceNumbers ==
  \A c \in Cats :
    LET S == SyntheticWorkers(c)
    IN  /\ \A i, j \in S : i # j => SequenceOf(c, i) # SequenceOf(c, j)
        /\ {SequenceOf(c, i) : i \in S} = 1..Cardinality(S)
        /\ S # {} => cat[c].index = Cardinality(S) + 1

\* Two images of a category hold the synthetic numbers 1 and 2, the second
\* entered while the first was still awaiting fs.pathExists and another
\* worker of the pool is sleeping before its retry.
C19_Witness ==
  \E c \in Cats : \E i, j \in SyntheticWorkers(c) :
    /\ SequenceOf(c, i) = 1 /\ SequenceOf(c, j) = 2
    /\ cat[c].dl[i].st = "pathExists" /\ cat[c].dl[j].st = "pathExists"
    /\ \E k \in 1..Len(cat[c].dl) : cat[c].dl[k].st = "sleep"


\* The destinations a run can give to the image URLs of the site.
DestsOfSite ==
  UNION {{[url |-> u, dest |-> destOf(c, u, n)] : u \in Range(FullImages(c)), n \in 1..MaxItems}
         : c \in Cats}

\* The image URLs of the site that a run can map to the file f.
MappedTo(f) == {m.url : m \in {k \in DestsOfSite : k.dest = f}}

\* C20: a file is in a category directory only if it was there before the
\* run or a GET for an image URL mapped to it succeeded; a file that was
\* there before the run is never written to; and a download that failed on
\* all its attempts has neither created nor overwritten its destination.
C20_FilesOnlyFromDownloads ==
  /\ \A f \in DOMAIN disk :
       disk[f] = OLD \/ \E u \in MappedTo(f) : disk[f] \in {u, PartOf(u)}
  /\ \A c \in Cats : \A i \in 1..Len(cat[c].dl) :
       (cat[c].dl[i].st \in {"ensureDir", "get", "writeFile", "sleep"}
          /\ cat[c].dl[i].dest \in DOMAIN disk)
         => disk[cat[c].dl[i].dest] # OLD
  /\ LogHas("Failed") => \A f \in DOMAIN disk : disk[f] # PartOf(ev.call.url)

=============================================================================
